---- MODULE Spec2Model ----
(***************************************************************************)
(* Telegram Media Bridge (src/bot.py).                                     *)
(*                                                                         *)
(* The program has one worker thread that runs an asyncio event loop       *)
(* (TeleHelper.loop), handler threads that run the bot handlers            *)
(* (login_cmd, status_cmd, start, text_message_handler) and submit         *)
(* coroutines to the loop with TeleHelper.run_coro, the global dictionary  *)
(* STATE, and the temporary files of the transfers.                        *)
(*                                                                         *)
(* A coroutine runs on the loop without interruption between two awaits;   *)
(* at an await of a network call it is suspended and any other ready       *)
(* coroutine may run.  A handler thread runs without interruption between  *)
(* two accesses to shared state (STATE, the loop).                         *)
(***************************************************************************)
EXTENDS Integers, Sequences, FiniteSets, TLC

\* ------------------------------------------------------------- bounds

\* The unit that stands for 1024 in MAX_FILE_SIZE (2 * 1024 * 1024 * 1024
\* does not fit TLC's 32-bit integers).
KiB == 2

\* ---------------------------------------------------------- constants

None == "None"

\* bot.py:33.  Any two distinct identifiers serve.
OWNER_ID == 1
Users == {OWNER_ID, OWNER_ID + 1}

\* bot.py:36
MAX_FILE_SIZE == 2 * KiB * KiB * KiB

\* The handler threads (callers of run_coro).
Threads == {"t1", "t2"}

\* The phone_code_hash values send_code_request can return.
Hashes == {"hash_a"}

\* The sizes a downloaded file can have.
Sizes == {MAX_FILE_SIZE - 1, MAX_FILE_SIZE, MAX_FILE_SIZE + 1}

\* ------------------------------------------------------ message texts

\* The texts of the updates, after strip() (bot.py:525).
TxtPhone == "+8801"
TxtChannelLink == "https://t.me/c/12/3"
TxtNoIdLink == "https://t.me/c/12"
Texts == {TxtPhone, TxtChannelLink, TxtNoIdLink}

\* The characters of a text.
Chars(text) ==
    CASE text = TxtPhone -> <<"+", "8", "8", "0", "1">>
      [] text = TxtChannelLink ->
            <<"h", "t", "t", "p", "s", ":", "/", "/", "t", ".", "m", "e", "/",
              "c", "/", "1", "2", "/", "3">>
      [] text = TxtNoIdLink ->
            <<"h", "t", "t", "p", "s", ":", "/", "/", "t", ".", "m", "e", "/",
              "c", "/", "1", "2">>

\* ------------------------------------------------------- link parsing

Digits == {"0", "1", "2", "3", "4", "5", "6", "7", "8", "9"}

Letters ==
    {"a", "b", "c", "d", "e", "f", "g", "h", "i", "j", "k", "l", "m", "n", "o",
     "p", "q", "r", "s", "t", "u", "v", "w", "x", "y", "z",
     "A", "B", "C", "D", "E", "F", "G", "H", "I", "J", "K", "L", "M", "N", "O",
     "P", "Q", "R", "S", "T", "U", "V", "W", "X", "Y", "Z"}

\* The character class [A-Za-z0_9_] of the pattern at bot.py:586: the letters,
\* "0", "_" and "9".
NameClass == Letters \cup {"0", "_", "9"}

\* The character of s at index i, "" beyond its end.
At(s, i) == IF i >= 1 /\ i <= Len(s) THEN s[i] ELSE ""

\* s holds the literal lit at index p.
HasLit(s, p, lit) == \A k \in 1..Len(lit) : At(s, p + k - 1) = lit[k]

\* The index after the longest run of characters of cls that starts at p
\* (a greedy cls+ ; p itself when the run is empty).
RECURSIVE RunEnd(_, _, _)
RunEnd(s, p, cls) == IF At(s, p) \in cls THEN RunEnd(s, p + 1, cls) ELSE p

SubSeqOf(s, from, to) == IF to <= from THEN <<>> ELSE SubSeq(s, from, to - 1)

NoMatch == [ok |-> FALSE, g1 |-> <<>>, g2 |-> <<>>, g3 |-> <<>>]

\* (\d+|[A-Za-z0_9_]+)/(\d+) at index p, group 1 starting at index g1s.  A run
\* shorter than the longest is followed by a character of the class, never by
\* "/", so only the longest run of each alternative can match.
MatchChatAndId(s, g1s, p) ==
    LET try(cls) ==
            LET e == RunEnd(s, p, cls)
                f == RunEnd(s, e + 1, Digits)
            IN  IF e > p /\ At(s, e) = "/" /\ f > e + 1
                  THEN [ok |-> TRUE, g1 |-> SubSeqOf(s, g1s, f),
                        g2 |-> SubSeqOf(s, p, e), g3 |-> SubSeqOf(s, e + 1, f)]
                  ELSE NoMatch
    IN  IF try(Digits).ok THEN try(Digits) ELSE try(NameClass)

\* https?://t\.me/((?:c/)?(\d+|[A-Za-z0_9_]+)/(\d+)) matched at index i.
MatchAt(s, i) ==
    LET p1 == i + 4
        p2 == IF At(s, p1) = "s" THEN p1 + 1 ELSE p1
        p3 == p2 + 8
    IN  IF HasLit(s, i, <<"h", "t", "t", "p">>)
           /\ HasLit(s, p2, <<":", "/", "/", "t", ".", "m", "e", "/">>)
          THEN IF HasLit(s, p3, <<"c", "/">>) /\ MatchChatAndId(s, p3, p3 + 2).ok
                 THEN MatchChatAndId(s, p3, p3 + 2)
                 ELSE MatchChatAndId(s, p3, p3)
          ELSE NoMatch

\* re.search: the match at the leftmost index that has one (bot.py:586).
ReSearch(s) ==
    LET hits == {i \in 1..Len(s) : MatchAt(s, i).ok}
    IN  IF hits = {} THEN NoMatch
        ELSE MatchAt(s, CHOOSE i \in hits : \A j \in hits : i <= j)

DigitValue(c) ==
    CASE c = "0" -> 0 [] c = "1" -> 1 [] c = "2" -> 2 [] c = "3" -> 3
      [] c = "4" -> 4 [] c = "5" -> 5 [] c = "6" -> 6 [] c = "7" -> 7
      [] c = "8" -> 8 [] c = "9" -> 9

\* int() of a string of decimal digits.
RECURSIVE IntOfDigits(_)
IntOfDigits(d) ==
    IF d = <<>> THEN 0
    ELSE 10 * IntOfDigits(SubSeq(d, 1, Len(d) - 1)) + DigitValue(d[Len(d)])

IsDigits(d) == d # <<>> /\ \A k \in 1..Len(d) : d[k] \in Digits

\* int("-100" + chat_part) (bot.py:597), for a chat_part of decimal digits.
RECURSIVE Pow10(_)
Pow10(n) == IF n = 0 THEN 1 ELSE 10 * Pow10(n - 1)

ChannelId(chat_part) == 0 - (100 * Pow10(Len(chat_part)) + IntOfDigits(chat_part))

\* bot.py:586-599: the chat and the message id of a text.  status is "nomatch"
\* when the pattern is not found, "error" when int() raises ValueError, and
\* "ok" otherwise.
NoLink == [status |-> "nomatch", from_chat |-> None, msg_id |-> 0]

ParseLink(s) ==
    LET m == ReSearch(s) IN
    IF ~m.ok THEN NoLink
    ELSE IF HasLit(m.g1, 1, <<"c", "/">>)
      THEN IF IsDigits(m.g2)
             THEN [status |-> "ok", from_chat |-> ChannelId(m.g2),
                   msg_id |-> IntOfDigits(m.g3)]
             ELSE [status |-> "error", from_chat |-> None, msg_id |-> IntOfDigits(m.g3)]
      ELSE [status |-> "ok", from_chat |-> <<"@">> \o m.g2, msg_id |-> IntOfDigits(m.g3)]

\* -------------------------------------------------------------- state

VARIABLES
    State,          \* bot.py:65 the auth fields of the global STATE (a reserved word here)
    loop_running,   \* TeleHelper.loop is running in TeleHelper.thread
    client,         \* TeleHelper.client: 0 for None, else the instance
    constructed,    \* how many TelegramClient instances were constructed
    connection,     \* the connection of TeleHelper.client
    coro,           \* per thread, the coroutine it submitted with run_coro
    future,         \* per thread, the future run_coro waits on
    pc,             \* per thread, the position of its handler
    txt,            \* per thread, the text of the update it handles
    loc,            \* per thread, the handler's locals phone, phone_code_hash
    link,           \* per thread, the handler's from_chat and msg_id
    file,           \* per thread, the temporary file of its request: whether it
                    \* is on disk, and its size
    replies,        \* per thread, the replies sent for the update it handles
    calc            \* the arguments and the result of a function of the program
                    \* that is looked at alone, or the progress snapshots and
                    \* their writers; None while the program runs

\* The state of the running program.
program == <<State, loop_running, client, constructed, connection, coro, future,
             pc, txt, loc, link, file, replies>>

vars == <<program, calc>>

\* The positions at which a handler is blocked in run_coro (Future.result()).
WaitPcs == {"status_wait", "send_wait", "sign_wait", "pwd_wait", "auth_wait",
            "fetch_wait"}

NoCoro == [op |-> "none", pc |-> "none", client |-> 0]
NoFuture == [state |-> "none", value |-> [kind |-> "none"]]
NoLoc == [phone |-> None, phone_code_hash |-> None]
NoFile == [exists |-> FALSE, size |-> 0]

\* bot.py:65-72
InitialSTATE ==
    [phone |-> None, sent_code |-> None, awaiting |-> None, logged_in |-> FALSE]

ProgramInit ==
    /\ State = InitialSTATE
    /\ loop_running = TRUE
    /\ client = 0
    /\ constructed = 0
    /\ connection = "none"
    /\ coro = [t \in Threads |-> NoCoro]
    /\ future = [t \in Threads |-> NoFuture]
    /\ pc = [t \in Threads |-> "idle"]
    /\ txt = [t \in Threads |-> None]
    /\ loc = [t \in Threads |-> NoLoc]
    /\ link = [t \in Threads |-> NoLink]
    /\ file = [t \in Threads |-> NoFile]
    /\ replies = [t \in Threads |-> <<>>]

Init == ProgramInit /\ calc = None

\* ------------------------------------------------- the worker's loop

\* The future's outcomes.
Result(v) == [state |-> "result", value |-> v]
Raised == [state |-> "exception", value |-> [kind |-> "exception"]]

\* An _init_client without the test of self.client.
InitClientEnterUnchecked(cl, n) == [constructs |-> TRUE, client |-> n + 1]

\* bot.py:93-103, up to the await of connect(): [constructs, client].
InitClientEnter(cl, n) ==
    IF cl = 0 THEN [constructs |-> TRUE, client |-> n + 1]
    ELSE [constructs |-> FALSE, client |-> cl]

\* The results of _fetch (bot.py:242, 247, 331-345, 349).  file_size is the
\* size the result names (in its error text, bot.py:331, when the file was too
\* large), 0 when it names none.
FetchError(error, file_size) ==
    [kind |-> "fetch", ok |-> FALSE, has_media |-> FALSE, error |-> error,
     file_size |-> file_size]
FetchText ==
    [kind |-> "fetch", ok |-> TRUE, has_media |-> FALSE, error |-> None, file_size |-> 0]
FetchMedia(file_size) ==
    [kind |-> "fetch", ok |-> TRUE, has_media |-> TRUE, error |-> None,
     file_size |-> file_size]

\* What a coroutine does with an exception of its network call: _send, _sign,
\* _signpwd and _check raise it again (bot.py:111-113, 124-126, 135-137, 143),
\* _fetch turns it into an error result (bot.py:347-349).
OnRaise(op) ==
    IF op = "fetch" THEN Result(FetchError("exception", 0)) ELSE Raised

\* The coroutine of t calls its first network operation on the client it was
\* given.  A call on a client that is not connected raises at once; otherwise
\* the coroutine is suspended until the answer comes.
CallNet(t, cl) ==
    IF connection' = "connected"
      THEN /\ coro' = [coro EXCEPT ![t] = [@ EXCEPT !.pc = "net", !.client = cl]]
           /\ UNCHANGED future
      ELSE /\ coro' = [coro EXCEPT ![t] = [@ EXCEPT !.pc = "done", !.client = cl]]
           /\ future' = [future EXCEPT ![t] = OnRaise(coro[t].op)]

\* The loop starts the coroutine of t: client = await self._init_client().
CoroStart(t) ==
    /\ loop_running
    /\ coro[t].pc = "ready"
    /\ LET e == InitClientEnter(client, constructed) IN
       IF e.constructs
         THEN /\ client' = e.client
              /\ constructed' = constructed + 1
              /\ connection' = "connecting"
              /\ coro' = [coro EXCEPT ![t] = [@ EXCEPT !.pc = "connect"]]
              /\ UNCHANGED future
         ELSE /\ UNCHANGED <<client, constructed>>
              /\ connection' = connection
              /\ CallNet(t, e.client)
    /\ UNCHANGED <<State, loop_running, pc, txt, loc, link, file, replies>>
    /\ UNCHANGED calc

\* connect() returns or raises (bot.py:102); _init_client returns self.client.
ConnectDone(t) ==
    /\ loop_running
    /\ coro[t].pc = "connect"
    /\ \E ok \in BOOLEAN :
        IF ok
          THEN /\ connection' = "connected"
               /\ CallNet(t, client)
          ELSE /\ connection' = IF connection = "connected" THEN connection ELSE "failed"
               /\ coro' = [coro EXCEPT ![t] = [@ EXCEPT !.pc = "done"]]
               /\ future' = [future EXCEPT ![t] = Raised]
    /\ UNCHANGED <<State, loop_running, client, constructed, pc, txt, loc, link,
                   file, replies>>
    /\ UNCHANGED calc

\* A loop that answers every operation with the outcome of is_user_authorized.
NetOutcomesOfCheck(op) ==
    {Result([kind |-> "auth", is_auth |-> b]) : b \in BOOLEAN} \cup {Raised}

\* The answers of the network operation a coroutine is suspended in.
\* send_code_request (bot.py:109-113), sign_in (bot.py:120-126, 133-137),
\* is_user_authorized (bot.py:143) and get_messages (bot.py:240-247).
NetOutcomes(op) ==
    CASE op = "send" -> {Result([kind |-> "hash", hash |-> h]) : h \in Hashes} \cup {Raised}
      [] op = "sign" -> {Result([kind |-> "sign", res |-> "ok"]),
                         Result([kind |-> "sign", res |-> "password_needed"]),
                         Raised}
      [] op = "signpwd" -> {Result([kind |-> "me"]), Raised}
      [] op = "check" -> {Result([kind |-> "auth", is_auth |-> b]) : b \in BOOLEAN}
                            \cup {Raised}
      [] op = "fetch" -> {Result(FetchError("Message not found", 0)), Result(FetchText),
                          OnRaise("fetch")}

\* The network operation of a coroutine other than _fetch's download answers.
NetDone(t) ==
    /\ loop_running
    /\ coro[t].pc = "net"
    /\ \E out \in NetOutcomes(coro[t].op) :
        /\ future' = [future EXCEPT ![t] = out]
        /\ coro' = [coro EXCEPT ![t] = [@ EXCEPT !.pc = "done"]]
    /\ UNCHANGED <<State, loop_running, client, constructed, connection, pc, txt,
                   loc, link, file, replies>>
    /\ UNCHANGED calc

\* get_messages answers with a message that has media: _fetch creates the
\* temporary file (bot.py:254-255) and awaits download_media (bot.py:311-315).
FetchGotMedia(t) ==
    /\ loop_running
    /\ coro[t].pc = "net"
    /\ coro[t].op = "fetch"
    /\ file' = [file EXCEPT ![t] = [exists |-> TRUE, size |-> 0]]
    /\ coro' = [coro EXCEPT ![t] = [@ EXCEPT !.pc = "download"]]
    /\ UNCHANGED <<State, loop_running, client, constructed, connection, future, pc,
                   txt, loc, link, replies>>
    /\ UNCHANGED calc

\* A size test that rejects the ceiling itself.
TooLargeFromCeiling(file_size) == file_size >= MAX_FILE_SIZE

\* bot.py:329
TooLarge(file_size) == file_size > MAX_FILE_SIZE

\* bot.py:317-345: what _fetch does with the path download_media returned, for
\* a temporary file f: [file, result].  path is "none" when download_media
\* returned no path, else the file holds size bytes.
AfterDownload(f, path, size) ==
    IF path # "none" /\ f.exists
      THEN IF TooLarge(size)
             THEN [file |-> NoFile, result |-> FetchError("File too large", size)]
             ELSE [file |-> [exists |-> TRUE, size |-> size], result |-> FetchMedia(size)]
      ELSE [file |-> f, result |-> FetchError("Download failed - file not found", 0)]

\* download_media returns (bot.py:311-345).
DownloadDone(t) ==
    /\ loop_running
    /\ coro[t].pc = "download"
    /\ \E path \in {"none", "dest_path"}, size \in Sizes :
        /\ path = "none" => size = 0
        /\ LET a == AfterDownload(file[t], path, size) IN
            /\ file' = [file EXCEPT ![t] = a.file]
            /\ future' = [future EXCEPT ![t] = Result(a.result)]
    /\ coro' = [coro EXCEPT ![t] = [@ EXCEPT !.pc = "done"]]
    /\ UNCHANGED <<State, loop_running, client, constructed, connection, pc, txt,
                   loc, link, replies>>
    /\ UNCHANGED calc

\* download_media raises: the handler at bot.py:347-349 returns an error.
DownloadRaises(t) ==
    /\ loop_running
    /\ coro[t].pc = "download"
    /\ future' = [future EXCEPT ![t] = OnRaise("fetch")]
    /\ coro' = [coro EXCEPT ![t] = [@ EXCEPT !.pc = "done"]]
    /\ UNCHANGED <<State, loop_running, client, constructed, connection, pc, txt,
                   loc, link, file, replies>>
    /\ UNCHANGED calc

\* A fatal error ends run_forever (bot.py:86-88): the worker thread ends and
\* nothing starts the loop again.
LoopStops ==
    /\ loop_running
    /\ loop_running' = FALSE
    /\ UNCHANGED <<State, client, constructed, connection, coro, future, pc, txt,
                   loc, link, file, replies>>
    /\ UNCHANGED calc

\* ------------------------------------------------------- the handlers

\* run_coro (bot.py:90-91): the coroutine is handed to the loop and the thread
\* waits for its future.  Nothing here looks at whether the loop is running.
Submitted(op) == [op |-> op, pc |-> "ready", client |-> 0]
Pending == [state |-> "pending", value |-> [kind |-> "none"]]

Submit(t, op, at) ==
    /\ coro' = [coro EXCEPT ![t] = Submitted(op)]
    /\ future' = [future EXCEPT ![t] = Pending]
    /\ pc' = [pc EXCEPT ![t] = at]

\* The handler of t does not read txt again.
DropTxt(t) == txt' = [txt EXCEPT ![t] = None]

\* The handler of t returns (or raises): its locals are gone.
Return(t) ==
    /\ pc' = [pc EXCEPT ![t] = "idle"]
    /\ txt' = [txt EXCEPT ![t] = None]
    /\ loc' = [loc EXCEPT ![t] = NoLoc]
    /\ link' = [link EXCEPT ![t] = NoLink]
    /\ coro' = [coro EXCEPT ![t] = NoCoro]
    /\ future' = [future EXCEPT ![t] = NoFuture]

Reply(t, tag) == replies' = [replies EXCEPT ![t] = Append(@, tag)]
FirstReply(t, tag) == replies' = [replies EXCEPT ![t] = <<tag>>]

Done(t) == future[t].state \in {"result", "exception"}

\* The writes of the handlers to STATE.
\* bot.py:484
LoginCmdState(S) == [S EXCEPT !.awaiting = "phone"]
\* A phone step that does not record the phone_code_hash.
CodeSentStateWithoutHash(S, phone, phone_code_hash) ==
    [S EXCEPT !.phone = phone, !.awaiting = "code"]
\* bot.py:534
CodeSentState(S, phone, phone_code_hash) ==
    [S EXCEPT !.phone = phone, !.sent_code = phone_code_hash, !.awaiting = "code"]
\* bot.py:546
NoPendingState(S) == [S EXCEPT !.awaiting = None]
\* bot.py:551-552 (nothing reads logged_in between the two writes)
SignedInState(S) == [S EXCEPT !.logged_in = TRUE, !.awaiting = None]
\* bot.py:555
PasswordNeededState(S) == [S EXCEPT !.awaiting = "password"]
\* bot.py:567
PasswordOkState(S) == [S EXCEPT !.logged_in = TRUE, !.awaiting = None]
\* bot.py:576
AuthCheckedState(S, is_auth) == [S EXCEPT !.logged_in = is_auth]

\* What the handler does with the outcome fut of a login step: the new STATE
\* and the reply.
\* bot.py:533-537
AfterSend(S, phone, fut) ==
    IF fut.state = "result"
      THEN [state |-> CodeSentState(S, phone, fut.value.hash), reply |-> "code_sent"]
      ELSE [state |-> S, reply |-> "error_send_code"]
\* A code step that gives up the login when sign_in raises.
AfterSignGivingUp(S, fut) ==
    IF fut.state = "result"
      THEN IF fut.value.res = "ok"
             THEN [state |-> SignedInState(S), reply |-> "login_ok"]
             ELSE [state |-> PasswordNeededState(S), reply |-> "send_password"]
      ELSE [state |-> NoPendingState(S), reply |-> "error_login"]
\* bot.py:549-560
AfterSign(S, fut) ==
    IF fut.state = "result"
      THEN IF fut.value.res = "ok"
             THEN [state |-> SignedInState(S), reply |-> "login_ok"]
             ELSE [state |-> PasswordNeededState(S), reply |-> "send_password"]
      ELSE [state |-> S, reply |-> "error_login"]
\* bot.py:566-570
AfterPassword(S, fut) ==
    IF fut.state = "result"
      THEN [state |-> PasswordOkState(S), reply |-> "login_ok"]
      ELSE [state |-> S, reply |-> "error_password"]

\* bot.py:456-463: owner_only returns without calling the handler, and without
\* a reply, when the sender u of the update is not OWNER_ID.
\* bot.py:467-480: /start from the user u.
StartFrom(t, u) ==
    /\ pc[t] = "idle"
    /\ replies' = [replies EXCEPT ![t] = IF u # OWNER_ID THEN <<>> ELSE <<"help">>]
    /\ file' = [file EXCEPT ![t] = NoFile]
    /\ UNCHANGED <<State, loop_running, client, constructed, connection, coro,
                   future, pc, txt, loc, link>>
    /\ UNCHANGED calc

StartCmd(t) == \E u \in Users : StartFrom(t, u)

\* A /login without owner_only.
LoginFromAnyone(t, u) ==
    /\ pc[t] = "idle"
    /\ State' = LoginCmdState(State) /\ FirstReply(t, "send_phone")
    /\ file' = [file EXCEPT ![t] = NoFile]
    /\ UNCHANGED <<loop_running, client, constructed, connection, coro, future, pc,
                   txt, loc, link>>
    /\ UNCHANGED calc

\* bot.py:482-485: /login from the user u.
LoginFrom(t, u) ==
    /\ pc[t] = "idle"
    /\ IF u # OWNER_ID
         THEN replies' = [replies EXCEPT ![t] = <<>>] /\ UNCHANGED State
         ELSE State' = LoginCmdState(State) /\ FirstReply(t, "send_phone")
    /\ file' = [file EXCEPT ![t] = NoFile]
    /\ UNCHANGED <<loop_running, client, constructed, connection, coro, future, pc,
                   txt, loc, link>>
    /\ UNCHANGED calc

LoginCmd(t) == \E u \in Users : LoginFrom(t, u)

\* bot.py:487-490: /status from the user u, up to run_coro.
StatusFrom(t, u) ==
    /\ pc[t] = "idle"
    /\ replies' = [replies EXCEPT ![t] = <<>>]
    /\ IF u # OWNER_ID
         THEN UNCHANGED <<coro, future, pc>>
         ELSE Submit(t, "check", "status_wait")
    /\ file' = [file EXCEPT ![t] = NoFile]
    /\ UNCHANGED <<State, loop_running, client, constructed, connection, txt, loc,
                   link>>
    /\ UNCHANGED calc

StatusCmd(t) == \E u \in Users : StatusFrom(t, u)

\* bot.py:490-501
StatusResult(t) ==
    /\ pc[t] = "status_wait"
    /\ Done(t)
    /\ Reply(t, IF future[t].state = "exception" THEN "status_error" ELSE "status")
    /\ Return(t)
    /\ UNCHANGED <<State, loop_running, client, constructed, connection, file>>
    /\ UNCHANGED calc

\* bot.py:520-526: the text message text arrives from the user u.
TextFrom(t, u, text) ==
    /\ pc[t] = "idle"
    /\ IF u # OWNER_ID
         THEN FirstReply(t, "not_authorized") /\ UNCHANGED <<pc, txt>>
         ELSE /\ replies' = [replies EXCEPT ![t] = <<>>]
              /\ pc' = [pc EXCEPT ![t] = "chk_phone"]
              /\ txt' = [txt EXCEPT ![t] = text]
    /\ file' = [file EXCEPT ![t] = NoFile]
    /\ UNCHANGED <<State, loop_running, client, constructed, connection, coro,
                   future, loc, link>>
    /\ UNCHANGED calc

TextMessage(t) == \E u \in Users, text \in Texts : TextFrom(t, u, text)

\* bot.py:529-533: awaiting 'phone'.
CheckPhone(t) ==
    /\ pc[t] = "chk_phone"
    /\ IF State.awaiting = "phone"
         THEN /\ loc' = [loc EXCEPT ![t] = [@ EXCEPT !.phone = txt[t]]]
              /\ Reply(t, "sending_code")
              /\ Submit(t, "send", "send_wait")
              /\ DropTxt(t)
         ELSE /\ pc' = [pc EXCEPT ![t] = "chk_code"]
              /\ UNCHANGED <<loc, replies, coro, future, txt>>
    /\ UNCHANGED <<State, loop_running, client, constructed, connection, link,
                   file>>
    /\ UNCHANGED calc

\* bot.py:533-538
SendResult(t) ==
    /\ pc[t] = "send_wait"
    /\ Done(t)
    /\ LET a == AfterSend(State, loc[t].phone, future[t]) IN
        State' = a.state /\ Reply(t, a.reply)
    /\ Return(t)
    /\ UNCHANGED <<loop_running, client, constructed, connection, file>>
    /\ UNCHANGED calc

\* A handler that does not look for an awaited code.
CheckCodeSkipped(t) ==
    /\ pc[t] = "chk_code"
    /\ pc' = [pc EXCEPT ![t] = "chk_password"]
    /\ UNCHANGED <<State, loop_running, client, constructed, connection, coro,
                   future, txt, loc, link, file, replies>>
    /\ UNCHANGED calc

\* bot.py:540: awaiting 'code'.
CheckCode(t) ==
    /\ pc[t] = "chk_code"
    /\ pc' = [pc EXCEPT ![t] = IF State.awaiting = "code" THEN "rd_phone"
                                ELSE "chk_password"]
    /\ UNCHANGED <<State, loop_running, client, constructed, connection, coro,
                   future, txt, loc, link, file, replies>>
    /\ UNCHANGED calc

\* bot.py:542
ReadPhone(t) ==
    /\ pc[t] = "rd_phone"
    /\ loc' = [loc EXCEPT ![t] = [@ EXCEPT !.phone = State.phone]]
    /\ pc' = [pc EXCEPT ![t] = "rd_hash"]
    /\ UNCHANGED <<State, loop_running, client, constructed, connection, coro,
                   future, txt, link, file, replies>>
    /\ UNCHANGED calc

\* bot.py:543-549
ReadHash(t) ==
    /\ pc[t] = "rd_hash"
    /\ IF loc[t].phone = None \/ State.sent_code = None
         THEN /\ Reply(t, "login_again")
              /\ State' = NoPendingState(State)
              /\ Return(t)
         ELSE /\ loc' = [loc EXCEPT ![t] = [@ EXCEPT !.phone_code_hash = State.sent_code]]
              /\ Submit(t, "sign", "sign_wait")
              /\ DropTxt(t)
              /\ UNCHANGED <<State, replies, link>>
    /\ UNCHANGED <<loop_running, client, constructed, connection, file>>
    /\ UNCHANGED calc

\* bot.py:549-561
SignResult(t) ==
    /\ pc[t] = "sign_wait"
    /\ Done(t)
    /\ LET a == AfterSign(State, future[t]) IN
        State' = a.state /\ Reply(t, a.reply)
    /\ Return(t)
    /\ UNCHANGED <<loop_running, client, constructed, connection, file>>
    /\ UNCHANGED calc

\* bot.py:563-566 and, when nothing is awaited, bot.py:574-575.
CheckPassword(t) ==
    /\ pc[t] = "chk_password"
    /\ IF State.awaiting = "password"
         THEN Submit(t, "signpwd", "pwd_wait") /\ DropTxt(t)
         ELSE Submit(t, "check", "auth_wait") /\ UNCHANGED txt
    /\ UNCHANGED <<State, loop_running, client, constructed, connection, loc,
                   link, file, replies>>
    /\ UNCHANGED calc

\* bot.py:566-571
PasswordResult(t) ==
    /\ pc[t] = "pwd_wait"
    /\ Done(t)
    /\ LET a == AfterPassword(State, future[t]) IN
        State' = a.state /\ Reply(t, a.reply)
    /\ Return(t)
    /\ UNCHANGED <<loop_running, client, constructed, connection, file>>
    /\ UNCHANGED calc

\* bot.py:575-613: the answer of is_user_authorized, the link, run_coro of
\* _fetch.  A ValueError of int() at bot.py:597 ends the handler.
\* m = re.search(...) and the lines after it (bot.py:586-599), for each text.
LinkOfPhone == ParseLink(Chars(TxtPhone))
LinkOfChannelLink == ParseLink(Chars(TxtChannelLink))
LinkOfNoIdLink == ParseLink(Chars(TxtNoIdLink))

LinkOf(text) ==
    CASE text = TxtPhone -> LinkOfPhone
      [] text = TxtChannelLink -> LinkOfChannelLink
      [] text = TxtNoIdLink -> LinkOfNoIdLink

\* An auth check that takes an exception of is_user_authorized for True.
IsAuthUnlessError(fut) == IF fut.state = "result" THEN fut.value.is_auth ELSE TRUE

\* bot.py:574-579: is_auth.
IsAuth(fut) == IF fut.state = "result" THEN fut.value.is_auth ELSE FALSE

AuthResult(t) ==
    /\ pc[t] = "auth_wait"
    /\ Done(t)
    /\ State' = IF future[t].state = "result"
                THEN AuthCheckedState(State, IsAuth(future[t]))
                ELSE State
    /\ IF ~IsAuth(future[t])
         THEN Reply(t, "login_first") /\ Return(t)
         ELSE IF LinkOf(txt[t]).status = "nomatch"
           THEN Reply(t, "error_bad_link") /\ Return(t)
           ELSE IF LinkOf(txt[t]).status = "error"
             THEN UNCHANGED replies /\ Return(t)
             ELSE /\ Reply(t, "link_detected")
                  /\ link' = [link EXCEPT ![t] = LinkOf(txt[t])]
                  /\ Submit(t, "fetch", "fetch_wait")
                  /\ DropTxt(t)
                  /\ UNCHANGED loc
    /\ UNCHANGED <<loop_running, client, constructed, connection, file>>
    /\ UNCHANGED calc

\* A handler that goes on to the upload whatever _fetch returned.
FetchResultUploading(t) ==
    /\ pc[t] = "fetch_wait"
    /\ Done(t)
    /\ IF future[t].state = "exception"
         THEN UNCHANGED replies /\ Return(t)
         ELSE /\ Reply(t, "download_complete")
              /\ pc' = [pc EXCEPT ![t] = "upload"]
              /\ UNCHANGED <<txt, loc, link, coro, future>>
    /\ UNCHANGED <<State, loop_running, client, constructed, connection, file>>
    /\ UNCHANGED calc

\* bot.py:613-646: the result of fetch_message_and_download.  An exception of
\* _init_client leaves run_coro and ends the handler.
FetchResult(t) ==
    /\ pc[t] = "fetch_wait"
    /\ Done(t)
    /\ IF future[t].state = "exception"
         THEN UNCHANGED replies /\ Return(t)
         ELSE IF ~future[t].value.ok
           THEN Reply(t, "error_download") /\ Return(t)
           ELSE IF ~future[t].value.has_media
             THEN Reply(t, "no_media") /\ Return(t)
             ELSE /\ Reply(t, "download_complete")
                  /\ pc' = [pc EXCEPT ![t] = "upload"]
                  /\ UNCHANGED <<txt, loc, link, coro, future>>
    /\ UNCHANGED <<State, loop_running, client, constructed, connection, file>>
    /\ UNCHANGED calc

\* bot.py:666-668
CleanUp(f) == IF f.exists THEN NoFile ELSE f

\* bot.py:353-402: upload_to_telegram_bot up to requests.post.  An exception of
\* the import or of getsize reaches the except clause before files is bound:
\* the clause raises and the handler ends.  An exception of open() is returned
\* as an error.
UploadBegin(t) ==
    /\ pc[t] = "upload"
    /\ \E fail \in {"none", "import", "getsize", "open"} :
        CASE fail = "none" ->
                /\ pc' = [pc EXCEPT ![t] = "uploading"]
                /\ UNCHANGED <<txt, loc, link, coro, future, replies, file>>
          [] fail \in {"import", "getsize"} ->
                /\ Return(t)
                /\ UNCHANGED <<replies, file>>
          [] fail = "open" ->
                /\ Reply(t, "error_upload")
                /\ file' = [file EXCEPT ![t] = CleanUp(@)]
                /\ Return(t)
    /\ UNCHANGED <<State, loop_running, client, constructed, connection>>
    /\ UNCHANGED calc

\* bot.py:402-446, 651-668: requests.post returns or raises; the reply and
\* the clean-up.
UploadEnd(t) ==
    /\ pc[t] = "uploading"
    /\ \E ok \in BOOLEAN : Reply(t, IF ok THEN "upload_complete" ELSE "error_upload")
    /\ file' = [file EXCEPT ![t] = CleanUp(@)]
    /\ Return(t)
    /\ UNCHANGED <<State, loop_running, client, constructed, connection>>
    /\ UNCHANGED calc

\* ------------------------------------------------------------ progress

\* The totals, in bytes, and the elapsed times, in ticks of the clock, of the
\* calls of progress_callback that are looked at.
MaxTotal == 5
MaxElapsed == 3

\* The quotient a / b of Python, for b > 0, kept as a fraction.
Quot(a, b) == [num |-> a, den |-> b]

\* A speed that leaves the elapsed time out.
ProgressSpeedOfBytes(downloaded, elapsed) == Quot(downloaded, 1)

\* bot.py:273-277
ProgressSpeed(downloaded, elapsed) ==
    IF elapsed > 0 THEN Quot(downloaded, elapsed) ELSE Quot(0, 1)

\* bot.py:279-284: eta_seconds, defined when eta is not "Calculating...".
ProgressEta(downloaded, total, elapsed) ==
    LET speed == ProgressSpeed(downloaded, elapsed) IN
    IF speed.num > 0 /\ total > downloaded
      THEN [defined |-> TRUE,
            seconds |-> Quot((total - downloaded) * speed.den, speed.num)]
      ELSE [defined |-> FALSE, seconds |-> Quot(0, 1)]

\* bot.py:286-290
ProgressPercent(downloaded, total) ==
    IF total > 0 THEN Quot(downloaded * 100, total) ELSE Quot(0, 1)

\* bot.py:269-299: what progress_callback(downloaded, total) writes to
\* DOWNLOAD_PROGRESS when elapsed is the time since start_time.
ProgressUpdate(downloaded, total, elapsed) ==
    [speed |-> ProgressSpeed(downloaded, elapsed),
     percent |-> ProgressPercent(downloaded, total),
     downloaded |-> downloaded,
     total |-> total,
     eta |-> ProgressEta(downloaded, total, elapsed)]

\* bot.py:258-266: DOWNLOAD_PROGRESS before the first call.
InitialProgress ==
    [speed |-> Quot(0, 1), percent |-> Quot(0, 1), downloaded |-> 0, total |-> 0,
     eta |-> [defined |-> FALSE, seconds |-> Quot(0, 1)]]

\* progress_callback is about to be called, and is called.
ProgressInit ==
    /\ ProgramInit
    /\ calc \in {[downloaded |-> d, total |-> B, elapsed |-> e, called |-> FALSE,
                   progress |-> InitialProgress] :
                    B \in 0..MaxTotal, d \in 0..MaxTotal, e \in 0..MaxElapsed}
    /\ calc.downloaded <= calc.total

ProgressCallback ==
    /\ ~calc.called
    /\ calc' = [calc EXCEPT
                  !.called = TRUE,
                  !.progress = ProgressUpdate(calc.downloaded, calc.total, calc.elapsed)]
    /\ UNCHANGED program

\* -------------------------------------------------- progress snapshots

\* The last tick of the clock, time.time(), that is looked at.
MaxClock == 2

\* The transfers whose legs write the snapshots.
Transfers == {"tr1", "tr2"}

\* dict.update: the keys of u take u's values, the others are kept.
DictUpdate(d, u) == u @@ d

\* bot.py:46-53
InitialDOWNLOAD_PROGRESS ==
    [speed |-> Quot(0, 1), percent |-> Quot(0, 1), downloaded |-> 0, total |-> 0,
     eta |-> [defined |-> FALSE, seconds |-> Quot(0, 1)], start_time |-> 0]

\* bot.py:55-62
InitialUPLOAD_PROGRESS ==
    [speed |-> Quot(0, 1), percent |-> Quot(0, 1), uploaded |-> 0, total |-> 0,
     eta |-> [defined |-> FALSE, seconds |-> Quot(0, 1)], start_time |-> 0]

\* A transfer: the leg it is in, the time at which its download leg set
\* start_time (bot.py:266), and the start_time its progress_callback last
\* read (bot.py:271); -1 before there is one.
NoTransfer == [leg |-> "none", started |-> 0 - 1, read_start |-> 0 - 1]

SnapshotInit ==
    /\ ProgramInit
    /\ calc = [now |-> 0,
               DOWNLOAD_PROGRESS |-> InitialDOWNLOAD_PROGRESS,
               UPLOAD_PROGRESS |-> InitialUPLOAD_PROGRESS,
               transfer |-> [tr \in Transfers |-> NoTransfer],
               reader |-> [of |-> "none", outcome |-> "none"]]

\* time.time() goes on.
Tick ==
    /\ calc.now < MaxClock
    /\ calc' = [calc EXCEPT !.now = @ + 1]
    /\ UNCHANGED program

\* bot.py:259-267: _fetch of the transfer tr initializes the snapshot and
\* awaits download_media.
DownloadBegins(tr) ==
    /\ calc.transfer[tr].leg = "none"
    /\ calc' = [calc EXCEPT
                  !.DOWNLOAD_PROGRESS =
                      DictUpdate(@, [InitialDOWNLOAD_PROGRESS EXCEPT !.start_time = calc.now]),
                  !.transfer[tr] = [@ EXCEPT !.leg = "download", !.started = calc.now]]
    /\ UNCHANGED program

\* bot.py:269-299: download_media calls the progress_callback of tr.
DownloadProgress(tr) ==
    /\ calc.transfer[tr].leg = "download"
    /\ \E total \in {0, MaxTotal}, downloaded \in {0, 1, MaxTotal} :
        /\ downloaded <= total
        /\ LET start_time == calc.DOWNLOAD_PROGRESS.start_time IN
           calc' = [calc EXCEPT
                      !.DOWNLOAD_PROGRESS =
                          DictUpdate(@, ProgressUpdate(downloaded, total,
                                                       calc.now - start_time)),
                      !.transfer[tr] = [@ EXCEPT !.read_start = start_time]]
    /\ UNCHANGED program

\* bot.py:311-345: download_media returns and _fetch returns.
DownloadEnds(tr) ==
    /\ calc.transfer[tr].leg = "download"
    /\ calc' = [calc EXCEPT !.transfer[tr] = [@ EXCEPT !.leg = "downloaded"]]
    /\ UNCHANGED program

\* bot.py:361-369: upload_to_telegram_bot initializes its snapshot.
UploadBegins(tr) ==
    /\ calc.transfer[tr].leg = "downloaded"
    /\ calc' = [calc EXCEPT
                  !.UPLOAD_PROGRESS =
                      DictUpdate(@, [InitialUPLOAD_PROGRESS EXCEPT
                                        !.total = MaxTotal, !.start_time = calc.now]),
                  !.transfer[tr] = [@ EXCEPT !.leg = "upload"]]
    /\ UNCHANGED program

\* bot.py:408-417: requests.post has returned after upload_time.
UploadEnds(tr) ==
    /\ calc.transfer[tr].leg = "upload"
    /\ LET upload_time == calc.now - calc.UPLOAD_PROGRESS.start_time IN
       calc' = [calc EXCEPT
                  !.UPLOAD_PROGRESS =
                      DictUpdate(@, [percent |-> Quot(100, 1),
                                     uploaded |-> MaxTotal,
                                     speed |-> ProgressSpeed(MaxTotal, upload_time),
                                     eta |-> [defined |-> TRUE, seconds |-> Quot(0, 1)]]),
                  !.transfer[tr] = NoTransfer]
    /\ UNCHANGED program

\* bot.py:512-517: the keys get_progress_message reads of the snapshot.
MessageKeys == {"percent", "speed", "downloaded", "total", "eta"}

\* bot.py:503-518: get_progress_message(progress_type); a key the snapshot
\* does not have raises KeyError.
GetProgressMessage(progress_type) ==
    /\ LET progress == IF progress_type = "download" THEN calc.DOWNLOAD_PROGRESS
                        ELSE calc.UPLOAD_PROGRESS
       IN calc' = [calc EXCEPT
                     !.reader = [of |-> progress_type,
                                 outcome |-> IF MessageKeys \subseteq DOMAIN progress
                                               THEN "message" ELSE "KeyError"]]
    /\ UNCHANGED program

\* bot.py:684-691: the /progress endpoint returns both snapshots.
ProgressEndpoint ==
    /\ calc' = [calc EXCEPT !.reader = [of |-> "/progress", outcome |-> "json"]]
    /\ UNCHANGED program

NextSnapshot ==
    \/ Tick
    \/ \E tr \in Transfers : DownloadBegins(tr)
    \/ \E tr \in Transfers : DownloadProgress(tr)
    \/ \E tr \in Transfers : DownloadEnds(tr)
    \/ \E tr \in Transfers : UploadBegins(tr)
    \/ \E tr \in Transfers : UploadEnds(tr)
    \/ \E progress_type \in {"download", "upload"} : GetProgressMessage(progress_type)
    \/ ProgressEndpoint

\* ------------------------------------------------------------- caption

\* The longest caption that is looked at.
MaxCaptionLen == 2000

\* bot.py:376: Telegram's caption limit.
CaptionLimit == 1024

\* A caption of n characters; its i-th character is named by i.
CaptionOfLen(n) == [i \in 1..n |-> i]

\* The last n characters of c.
LastChars(c, n) == SubSeq(c, IF Len(c) > n THEN Len(c) - n + 1 ELSE 1, Len(c))

\* c[:n]
FirstChars(c, n) == SubSeq(c, 1, IF Len(c) > n THEN n ELSE Len(c))

\* bot.py:372-376: the data of the request, for a caption.
UploadData(caption) ==
    IF caption # <<>>
      THEN [chat_id |-> OWNER_ID, has_caption |-> TRUE,
            caption |-> FirstChars(caption, CaptionLimit)]
      ELSE [chat_id |-> OWNER_ID, has_caption |-> FALSE, caption |-> <<>>]

\* upload_to_telegram_bot is about to prepare its request, and prepares it.
CaptionInit ==
    /\ ProgramInit
    /\ calc \in {[caption |-> CaptionOfLen(n), called |-> FALSE, data |-> UploadData(<<>>)] :
                    n \in 0..MaxCaptionLen}

PrepareUpload ==
    /\ ~calc.called
    /\ calc' = [calc EXCEPT !.called = TRUE, !.data = UploadData(calc.caption)]
    /\ UNCHANGED program

\* ---------------------------------------------------------- media type

\* The longest list of document attributes that is looked at.
MaxAttributes == 2

\* The MIME types of the documents: one of each prefix the function tests,
\* one of no such prefix, and None.
MimeTypes == {"image/png", "video/mp4", "audio/ogg", "application/pdf", None}

\* The prefix of a MIME type up to and including its "/".
MimePrefix(mime_type) ==
    CASE mime_type = "image/png" -> "image/"
      [] mime_type = "video/mp4" -> "video/"
      [] mime_type = "audio/ogg" -> "audio/"
      [] mime_type = "application/pdf" -> "application/"

\* The file names of the DocumentAttributeFilename attributes, as stem and
\* extension, and str.lower() of the extensions.
Extensions == {".png", ".MP4", ".mp3", ".txt"}
Lower(ext) == IF ext = ".MP4" THEN ".mp4" ELSE ext
FileName(stem, ext) == [stem |-> stem, ext |-> ext]

\* The attributes: DocumentAttributeVideo, and DocumentAttributeFilename with
\* each of the file names.
AttrVideo == [attr |-> "DocumentAttributeVideo", file_name |-> FileName("", "")]
AttrFilename(ext) ==
    [attr |-> "DocumentAttributeFilename", file_name |-> FileName("clip", ext)]
Attributes == {AttrVideo} \cup {AttrFilename(ext) : ext \in Extensions}

\* bot.py:187-192: the media type a file name gives, None when it gives none.
TypeOfFileName(file_name) ==
    CASE Lower(file_name.ext) \in {".jpg", ".jpeg", ".png", ".webp"} -> "photo"
      [] Lower(file_name.ext) \in {".mp4", ".avi", ".mov", ".mkv"} -> "video"
      [] Lower(file_name.ext) \in {".mp3", ".wav", ".ogg"} -> "audio"
      [] OTHER -> None

\* bot.py:166-176: the locals after the test of the MIME type.
AfterMime(mime_type) ==
    LET start == [media_type |-> "document", file_name |-> FileName("file", ".bin"),
                  file_extension |-> ""]
    IN  IF mime_type = None THEN start
        ELSE CASE MimePrefix(mime_type) = "image/" ->
                    [start EXCEPT !.media_type = "photo", !.file_extension = ".jpg"]
               [] MimePrefix(mime_type) = "video/" ->
                    [start EXCEPT !.media_type = "video", !.file_extension = ".mp4"]
               [] MimePrefix(mime_type) = "audio/" ->
                    [start EXCEPT !.media_type = "audio", !.file_extension = ".mp3"]
               [] OTHER -> start

\* bot.py:181-192: one turn of the loop over document.attributes.
AfterAttribute(l, a) ==
    IF a.attr = "DocumentAttributeVideo"
      THEN [l EXCEPT !.media_type = "video", !.file_extension = ".mp4"]
      ELSE [l EXCEPT !.file_name = a.file_name,
                     !.media_type = IF TypeOfFileName(a.file_name) # None
                                      THEN TypeOfFileName(a.file_name) ELSE @]

RECURSIVE AfterAttributes(_, _)
AfterAttributes(l, attributes) ==
    IF attributes = <<>> THEN l
    ELSE AfterAttributes(AfterAttribute(l, Head(attributes)), Tail(attributes))

\* bot.py:194-201: the name made from the extension, and the return value.
Returned(l) ==
    [media_type |-> l.media_type,
     file_name |-> IF l.file_name = FileName("file", ".bin") /\ l.file_extension # ""
                     THEN FileName("file", l.file_extension) ELSE l.file_name]

\* bot.py:146-201: detect_media_type_and_name of a message's media: None, a
\* photo, or a document with a MIME type and attributes.
DetectMediaTypeAndName(media) ==
    CASE media.kind = "none" ->
            [media_type |-> "document", file_name |-> FileName("file", ".bin")]
      [] media.kind = "photo" ->
            [media_type |-> "photo", file_name |-> FileName("file", ".jpg")]
      [] media.kind = "document" ->
            Returned(AfterAttributes(AfterMime(media.mime_type), media.attributes))

\* The lists of at most n attributes.
RECURSIVE AttributeLists(_)
AttributeLists(n) ==
    IF n = 0 THEN {<<>>}
    ELSE AttributeLists(n - 1)
            \cup {Append(l, a) : l \in AttributeLists(n - 1), a \in Attributes}

Medias ==
    {[kind |-> "none", mime_type |-> None, attributes |-> <<>>],
     [kind |-> "photo", mime_type |-> None, attributes |-> <<>>]}
        \cup {[kind |-> "document", mime_type |-> m, attributes |-> l] :
                m \in MimeTypes, l \in AttributeLists(MaxAttributes)}

\* detect_media_type_and_name is about to be called, and is called.
MediaInit ==
    /\ ProgramInit
    /\ calc \in {[media |-> m, called |-> FALSE,
                   result |-> [media_type |-> "document",
                               file_name |-> FileName("file", ".bin")]] :
                    m \in Medias}

DetectMedia ==
    /\ ~calc.called
    /\ calc' = [calc EXCEPT !.called = TRUE, !.result = DetectMediaTypeAndName(calc.media)]
    /\ UNCHANGED program

\* --------------------------------------------------------------- links

\* The longest user name, and the longest channel id and message id, of the
\* links that are looked at.
MaxNameLen == 2
MaxIdLen == 2

\* The characters of the user names: a letter, the underscore, a digit the
\* pattern's class names and one it does not name.
NameChars == {"a", "_", "0", "1"}
IdChars == {"0", "1", "9"}

\* The sequences of 1 to n characters of a set.
RECURSIVE SeqsUpTo(_, _)
SeqsUpTo(chars, n) ==
    IF n = 0 THEN {}
    ELSE {<<c>> : c \in chars}
            \cup {Append(w, c) : w \in SeqsUpTo(chars, n - 1), c \in chars}

LinkPrefix == <<"h", "t", "t", "p", "s", ":", "/", "/", "t", ".", "m", "e", "/">>

\* The texts https://t.me/<chat>/<id> and https://t.me/c/<chat>/<id>, and the
\* same without /<id>.
LinkText(form, chat, id) ==
    LinkPrefix \o (IF form = "channel" THEN <<"c", "/">> ELSE <<>>) \o chat
        \o (IF id = <<>> THEN <<>> ELSE <<"/">> \o id)

Links ==
    {[form |-> "name", chat |-> n, id |-> d] :
        n \in SeqsUpTo(NameChars, MaxNameLen), d \in SeqsUpTo(IdChars, MaxIdLen) \cup {<<>>}}
    \cup {[form |-> "channel", chat |-> i, id |-> d] :
        i \in SeqsUpTo(IdChars, MaxIdLen), d \in SeqsUpTo(IdChars, MaxIdLen) \cup {<<>>}}

\* The handler is about to parse the text of a link, and parses it.
LinkInit ==
    /\ ProgramInit
    /\ calc \in {[given |-> l, text |-> LinkText(l.form, l.chat, l.id), called |-> FALSE,
                   link |-> NoLink] : l \in Links}

ParseText ==
    /\ ~calc.called
    /\ calc' = [calc EXCEPT !.called = TRUE, !.link = ParseLink(calc.text)]
    /\ UNCHANGED program

\* ------------------------------------------------------ specification

Next ==
    \/ \E t \in Threads : CoroStart(t)
    \/ \E t \in Threads : ConnectDone(t)
    \/ \E t \in Threads : NetDone(t)
    \/ \E t \in Threads : FetchGotMedia(t)
    \/ \E t \in Threads : DownloadDone(t)
    \/ \E t \in Threads : DownloadRaises(t)
    \/ \E t \in Threads : StartCmd(t)
    \/ \E t \in Threads : LoginCmd(t)
    \/ \E t \in Threads : StatusCmd(t)
    \/ \E t \in Threads : StatusResult(t)
    \/ \E t \in Threads : TextMessage(t)
    \/ \E t \in Threads : CheckPhone(t)
    \/ \E t \in Threads : SendResult(t)
    \/ \E t \in Threads : CheckCode(t)
    \/ \E t \in Threads : ReadPhone(t)
    \/ \E t \in Threads : ReadHash(t)
    \/ \E t \in Threads : SignResult(t)
    \/ \E t \in Threads : CheckPassword(t)
    \/ \E t \in Threads : PasswordResult(t)
    \/ \E t \in Threads : AuthResult(t)
    \/ \E t \in Threads : FetchResult(t)
    \/ \E t \in Threads : UploadBegin(t)
    \/ \E t \in Threads : UploadEnd(t)

\* The program while the worker's loop runs.
Spec == Init /\ [][Next]_vars

\* The arrival of an update at the handler thread t.
Arrive(t) == StartCmd(t) \/ LoginCmd(t) \/ StatusCmd(t) \/ TextMessage(t)

\* The steps of the worker's loop and of the handler thread t.
Progress(t) ==
    \/ CoroStart(t) \/ ConnectDone(t) \/ NetDone(t) \/ FetchGotMedia(t)
    \/ DownloadDone(t) \/ DownloadRaises(t)
    \/ StatusResult(t) \/ CheckPhone(t) \/ SendResult(t) \/ CheckCode(t)
    \/ ReadPhone(t) \/ ReadHash(t) \/ SignResult(t) \/ CheckPassword(t)
    \/ PasswordResult(t) \/ AuthResult(t) \/ FetchResult(t) \/ UploadBegin(t)
    \/ UploadEnd(t)

\* The program with one handler thread and a fatal error of the worker's
\* loop.  Every behaviour of it is a behaviour of the program with more
\* threads, in which the others receive no update.
Caller == "t1"

NextFatal == Arrive(Caller) \/ Progress(Caller) \/ LoopStops

\* The loop runs a coroutine that is ready or whose awaited call has answered,
\* and a thread that can go on does: each of these steps is taken once it can
\* be.  The arrival of an update and the fatal error are not among them.
Fairness(t) ==
    /\ WF_vars(CoroStart(t)) /\ WF_vars(ConnectDone(t)) /\ WF_vars(NetDone(t))
    /\ WF_vars(FetchGotMedia(t)) /\ WF_vars(DownloadDone(t))
    /\ WF_vars(DownloadRaises(t))
    /\ WF_vars(StatusResult(t)) /\ WF_vars(CheckPhone(t)) /\ WF_vars(SendResult(t))
    /\ WF_vars(CheckCode(t)) /\ WF_vars(ReadPhone(t)) /\ WF_vars(ReadHash(t))
    /\ WF_vars(SignResult(t)) /\ WF_vars(CheckPassword(t))
    /\ WF_vars(PasswordResult(t)) /\ WF_vars(AuthResult(t))
    /\ WF_vars(FetchResult(t)) /\ WF_vars(UploadBegin(t)) /\ WF_vars(UploadEnd(t))

SpecFatal == Init /\ [][NextFatal]_vars /\ Fairness(Caller)

\* ------------------------------------------------------------- claims

LastReply(t) == IF replies[t] = <<>> THEN None ELSE replies[t][Len(replies[t])]

\* C1: once the handler of a transfer request has finished, on whatever
\* branch, the temporary file created for the request is not on disk.
C1_TempFileRemoved == \A t \in Threads : pc[t] = "idle" => ~file[t].exists

\* _fetch has returned its result to the handler of t.
FetchReturned(t) ==
    /\ pc[t] = "fetch_wait"
    /\ future[t].state = "result"

\* C2: a download of exactly MAX_FILE_SIZE bytes is returned as ok with its
\* file kept, and the handler goes on to the upload; a download of more is
\* returned as 'too large' with its file deleted, and no upload is started for
\* a file above the ceiling.
C2_Returned ==
    \A t \in Threads : FetchReturned(t) =>
        LET r == future[t].value IN
        /\ r.file_size = MAX_FILE_SIZE =>
              r.ok /\ r.has_media /\ file[t] = [exists |-> TRUE, size |-> MAX_FILE_SIZE]
        /\ r.file_size >= MAX_FILE_SIZE + 1 =>
              ~r.ok /\ r.error = "File too large" /\ ~file[t].exists

C2_Uploads ==
    \A t \in Threads : pc[t] \in {"upload", "uploading"} =>
        file[t].exists /\ file[t].size <= MAX_FILE_SIZE

C2_SizeCeiling ==
    /\ [](C2_Returned /\ C2_Uploads)
    /\ [][\A t \in Threads :
            (FetchReturned(t) /\ future[t].value.file_size = MAX_FILE_SIZE
                /\ pc'[t] # pc[t]) => pc'[t] = "upload"]_vars

\* C2's case: a file of exactly the ceiling is about to be uploaded while the
\* other request got 'too large' for one byte more.
C2_Witness ==
    \E t, u \in Threads :
        /\ pc[t] = "upload" /\ file[t].size = MAX_FILE_SIZE
        /\ FetchReturned(u)
        /\ future[u].value.file_size = MAX_FILE_SIZE + 1
        /\ future[u].value.error = "File too large"

\* A coroutine that has started and not finished: it is suspended at an await.
Suspended(t) == coro[t].pc \in {"connect", "net", "download"}

\* C3: no coroutine begins to run on the loop while another one has started
\* and not yet finished.
C3_NonReentrant ==
    [][\A t \in Threads :
        (coro[t].pc = "ready" /\ coro'[t].pc # "ready") =>
            \A u \in Threads \ {t} : ~Suspended(u)]_vars

\* C4: at most one TelegramClient is ever constructed, and every coroutine
\* that got a client from _init_client got that one.
C4_OneClient ==
    /\ constructed <= 1
    /\ \A t \in Threads : coro[t].client # 0 => coro[t].client = client

\* C4's case: a coroutine got the client while the coroutine that constructed
\* it is still in connect().
C4_Witness ==
    \E t, u \in Threads :
        /\ t # u
        /\ coro[t].pc = "connect"
        /\ coro[u].client # 0
        /\ coro[u].client = client

\* The positions of the code step of text_message_handler (bot.py:540-561).
CodeStepPcs == {"rd_phone", "rd_hash", "sign_wait"}

\* A step of a coroutine on the worker's loop.
WorkerStep ==
    \E t \in Threads :
        /\ Suspended(t) \/ coro[t].pc = "ready"
        /\ coro'[t] # coro[t]
        /\ pc'[t] = pc[t]

\* C5: two handlers are never both in the code step, and the auth fields of
\* STATE are written only by steps that run on the worker's loop.
C5_AuthSerialized ==
    /\ [](\A t, u \in Threads :
            (pc[t] \in CodeStepPcs /\ pc[u] \in CodeStepPcs) => t = u)
    /\ [][State' # State => WorkerStep]_vars

\* C6: a handler that calls run_coro after the worker's loop has stopped does
\* not stay blocked in run_coro for ever.
C6_NoCallerBlocksForever ==
    [](~loop_running /\ pc[Caller] \notin WaitPcs => []<>(pc[Caller] \notin WaitPcs))

\* C7: whenever STATE is awaiting a code, its phone and its sent_code are set.
C7_CodePendingFieldsSet ==
    State.awaiting = "code" => State.phone # None /\ State.sent_code # None

\* C7's case: a code was submitted, sign_in raised, and STATE still awaits a
\* code.
C7_Witness ==
    \E t \in Threads :
        /\ pc[t] = "idle"
        /\ LastReply(t) = "error_login"
        /\ State.awaiting = "code"

\* C8: STATE is always in one of the four defined states; logged_in is never
\* true while awaiting is not None.
C8_FourStates ==
    LET Unauthenticated == ~State.logged_in /\ State.awaiting \in {None, "phone"}
        CodeRequested == ~State.logged_in /\ State.awaiting = "code"
        PasswordRequired == ~State.logged_in /\ State.awaiting = "password"
        Authenticated == State.logged_in /\ State.awaiting = None
    IN  /\ Unauthenticated \/ CodeRequested \/ PasswordRequired \/ Authenticated
        /\ State.logged_in => State.awaiting = None

\* The reply of a login step whose network call raised.
ErrorReplyAt(at) ==
    CASE at = "send_wait" -> "error_send_code"
      [] at = "sign_wait" -> "error_login"
      [] at = "pwd_wait" -> "error_password"

\* The handler of t gets an exception from the run_coro of a login step.
LoginStepFails(t) ==
    /\ pc[t] \in {"send_wait", "sign_wait", "pwd_wait"}
    /\ future[t].state = "exception"
    /\ pc'[t] # pc[t]

\* C9: when the network call of a login step raises, the handler leaves every
\* field of STATE as it is, sends the error reply of the step and returns.
C9_FailedStepKeepsState ==
    [][\A t \in Threads :
        LoginStepFails(t) =>
            /\ State' = State
            /\ replies'[t] = Append(replies[t], ErrorReplyAt(pc[t]))
            /\ pc'[t] = "idle"]_vars

\* C9's case: each of the three steps has failed with STATE still awaiting
\* the same input; here the password step.
C9_Witness ==
    \E t \in Threads :
        /\ pc[t] = "idle"
        /\ LastReply(t) = "error_password"
        /\ State.awaiting = "password"

\* The handler of t gets ("ok", me) from sign_in_with_code.
CodeAccepted(t) ==
    /\ pc[t] = "sign_wait"
    /\ future[t].state = "result"
    /\ future[t].value.res = "ok"
    /\ pc'[t] # pc[t]

\* C10: a code submission that succeeds makes STATE Authenticated and clears
\* its phone and its sent_code.
C10_CodeSuccessClearsPending ==
    [][\A t \in Threads :
        CodeAccepted(t) =>
            /\ State'.logged_in /\ State'.awaiting = None
            /\ State'.phone = None /\ State'.sent_code = None]_vars

\* C11: /login from the owner, issued in any state, leaves STATE
\* Unauthenticated with its phone and its sent_code None.
C11_LoginResets ==
    [][\A t \in Threads :
        LoginFrom(t, OWNER_ID) =>
            /\ ~State'.logged_in
            /\ State'.awaiting \in {None, "phone"}
            /\ State'.phone = None
            /\ State'.sent_code = None]_vars

\* The handler of t submits fetch_message_and_download.
SubmitsFetch(t) == coro[t].op # "fetch" /\ coro'[t].op = "fetch"

\* The handler of t leaves the auth check without is_user_authorized having
\* returned True.
AuthCheckRefuses(t) ==
    /\ pc[t] = "auth_wait"
    /\ Done(t)
    /\ ~(future[t].state = "result" /\ future[t].value.is_auth)
    /\ pc'[t] # pc[t]

\* C12: fetch_message_and_download is submitted only by a handler whose own
\* call of is_user_authorized has just returned True, whatever STATE's
\* logged_in says; when the call returns False or raises, the handler replies
\* that a login is needed and returns without a fetch.
C12_FetchOnlyAfterCheck ==
    [][\A t \in Threads :
        /\ SubmitsFetch(t) =>
              /\ pc[t] = "auth_wait"
              /\ future[t].state = "result"
              /\ future[t].value.is_auth
        /\ AuthCheckRefuses(t) =>
              /\ pc'[t] = "idle"
              /\ coro'[t] = NoCoro
              /\ replies'[t] = Append(replies[t], "login_first")]_vars

\* C12's case: STATE says logged in, the check raised, and the handler
\* answered that a login is needed.
C12_Witness ==
    \E t \in Threads :
        /\ pc[t] = "idle"
        /\ LastReply(t) = "login_first"
        /\ State.logged_in

\* An update of the user u arrives at the handler thread t: a command or a
\* text message.
CommandFrom(t, u) == StartFrom(t, u) \/ LoginFrom(t, u) \/ StatusFrom(t, u)
UpdateFrom(t, u) == CommandFrom(t, u) \/ \E text \in Texts : TextFrom(t, u, text)

\* The update changes nothing of STATE, submits nothing, starts no transfer.
NothingDone(t) ==
    /\ State' = State
    /\ coro' = coro /\ future' = future
    /\ pc' = pc
    /\ ~file'[t].exists

OpAt(at) ==
    CASE at \in {"status_wait", "auth_wait"} -> "check"
      [] at = "send_wait" -> "send"
      [] at = "sign_wait" -> "sign"
      [] at = "pwd_wait" -> "signpwd"
      [] at = "fetch_wait" -> "fetch"

KindOf(op) ==
    CASE op = "check" -> "auth"
      [] op = "send" -> "hash"
      [] op = "sign" -> "sign"
      [] op = "signpwd" -> "me"
      [] op = "fetch" -> "fetch"

\* The future of t holds the outcome of the coroutine t submitted, once that
\* coroutine has finished and not before.
OwnOutcome(t) ==
    pc[t] \in WaitPcs =>
        /\ coro[t].op = OpAt(pc[t])
        /\ Done(t) <=> coro[t].pc = "done"
        /\ future[t].state = "result" => future[t].value.kind = KindOf(coro[t].op)

\* Within one call of run_coro (the handler stays where it is) a coroutine
\* that has started is not started again, and a handler whose run_coro raised
\* submits nothing more.
RunsOnce(t) ==
    /\ (coro[t].pc \in {"connect", "net", "download", "done"} /\ pc'[t] = pc[t]) =>
          coro'[t].pc # "ready"
    /\ (future[t].state = "exception" /\ pc'[t] # pc[t]) =>
          pc'[t] = "idle" /\ coro'[t] = NoCoro

\* C14: run_coro runs the submitted coroutine once and gives its caller the
\* outcome of that coroutine, its value or its exception, and of no other;
\* nothing submits a failed operation again.
C14_OwnOutcomeOnce ==
    /\ [](\A t \in Threads : OwnOutcome(t))
    /\ [][\A t \in Threads : RunsOnce(t)]_vars

\* C14's case: two handlers wait in run_coro for different operations, and
\* each future holds the result of its own.
C14_Witness ==
    \E t, u \in Threads :
        /\ pc[t] = "send_wait" /\ future[t].state = "result"
        /\ pc[u] = "auth_wait" /\ future[u].state = "result"
        /\ future[t].value.kind = "hash"
        /\ future[u].value.kind = "auth"

\* The replies of text_message_handler that state the outcome of a text
\* message (the others announce a step that is about to be made).
OutcomeReplies ==
    {"code_sent", "error_send_code", "login_again", "login_ok", "send_password",
     "error_login", "error_password", "login_first", "error_bad_link",
     "error_download", "no_media", "upload_complete", "error_upload"}

\* text_message_handler ends for the owner's text message handled by t.
TextHandlerEnds(t) ==
    /\ pc[t] \notin {"idle", "status_wait"}
    /\ pc'[t] = "idle"

\* C15: when the handler of a text message of the owner ends, it has replied,
\* and its last reply states the outcome of the message.
C15_EveryTextAnswered ==
    [][\A t \in Threads :
        TextHandlerEnds(t) =>
            /\ replies'[t] # <<>>
            /\ replies'[t][Len(replies'[t])] \in OutcomeReplies]_vars

\* progress_callback alone, for every total, every done-count up to it and
\* every elapsed time.
SpecProgress == ProgressInit /\ [][ProgressCallback]_vars

\* C16: the percent is between 0 and 100, and 0 for a total of 0; the speed
\* is downloaded / elapsed for a positive elapsed time and 0 otherwise; the
\* ETA is defined exactly when the speed is positive and the total exceeds
\* the done-count, and then it is (total - downloaded) / speed and not
\* negative.
C16_ProgressArithmetic ==
    calc.called =>
        LET d == calc.downloaded
            B == calc.total
            e == calc.elapsed
            p == calc.progress
        IN  /\ p.percent.den > 0
            /\ 0 <= p.percent.num /\ p.percent.num <= 100 * p.percent.den
            /\ B = 0 => p.percent.num = 0
            /\ p.speed.den > 0
            /\ e > 0 => p.speed.num * e = d * p.speed.den
            /\ e = 0 => p.speed.num = 0
            /\ p.eta.defined <=> (p.speed.num > 0 /\ B > d)
            /\ p.eta.defined =>
                  /\ p.eta.seconds.den > 0 /\ p.eta.seconds.num >= 0
                  /\ p.eta.seconds.num * p.speed.num
                        = (B - d) * p.speed.den * p.eta.seconds.den

\* C16's case: a download that is under way, with a percent strictly between
\* 0 and 100 and an ETA.
C16_Witness ==
    /\ calc.called
    /\ calc.progress.eta.defined
    /\ calc.progress.percent.num > 0
    /\ calc.progress.percent.num < 100 * calc.progress.percent.den
    /\ calc.elapsed > 1

\* The preparation of the upload request alone, for every caption.
SpecCaption == CaptionInit /\ [][PrepareUpload]_vars

\* C17: the caption of the request is the prefix of the caption given, of
\* length min(len, 1024); a caption of 2000 characters is sent as its first
\* 1024; for an empty caption the request has no caption field.
C17_CaptionPrefix ==
    calc.called =>
        LET c == calc.caption
            sent == calc.data.caption
        IN  /\ calc.data.has_caption <=> c # <<>>
            /\ Len(sent) = IF Len(c) < 1024 THEN Len(c) ELSE 1024
            /\ \A i \in 1..Len(sent) : sent[i] = c[i]
            /\ Len(c) = 2000 => Len(sent) = 1024

\* C17's case: a caption of 2000 characters was cut to 1024.
C17_Witness ==
    /\ calc.called
    /\ Len(calc.caption) = 2000
    /\ calc.data.has_caption
    /\ Len(calc.data.caption) = 1024

\* detect_media_type_and_name alone, for every media.
SpecMedia == MediaInit /\ [][DetectMedia]_vars

\* The kinds the priority order allows for a document: video for a video
\* attribute; otherwise the kind of the MIME prefix; otherwise a kind that one
\* of its file names gives; otherwise document.
KindsByPriority(media) ==
    LET attrs == {media.attributes[i] : i \in 1..Len(media.attributes)}
        byName == {TypeOfFileName(a.file_name) :
                     a \in {b \in attrs : b.attr = "DocumentAttributeFilename"}}
                  \ {None}
    IN  IF AttrVideo \in attrs THEN {"video"}
        ELSE IF media.mime_type # None /\ MimePrefix(media.mime_type) = "image/"
          THEN {"photo"}
        ELSE IF media.mime_type # None /\ MimePrefix(media.mime_type) = "video/"
          THEN {"video"}
        ELSE IF media.mime_type # None /\ MimePrefix(media.mime_type) = "audio/"
          THEN {"audio"}
        ELSE IF byName # {} THEN byName
        ELSE {"document"}

\* C18: for every document, detect_media_type_and_name returns the kind the
\* priority order gives.
C18_MediaPriority ==
    (calc.called /\ calc.media.kind = "document") =>
        calc.result.media_type \in KindsByPriority(calc.media)

\* The parsing of a link alone, for every link.
SpecLink == LinkInit /\ [][ParseText]_vars

\* C19: https://t.me/c/<id>/<n> resolves to the chat int("-100" + <id>) and
\* the message <n>; https://t.me/<name>/<n>, for a name of letters, digits
\* and underscores, resolves to the chat @<name> and the message <n>.
C19_LinkResolves ==
    (calc.called /\ calc.given.id # <<>>) =>
        LET l == calc.given IN
        /\ calc.link.status = "ok"
        /\ calc.link.msg_id = IntOfDigits(l.id)
        /\ calc.link.from_chat =
              IF l.form = "channel" THEN 0 - IntOfDigits(<<"1", "0", "0">> \o l.chat)
              ELSE <<"@">> \o l.chat

\* The two accepted forms, read off the text itself: after https://t.me/
\* either c/<digits>/<digits>, or <name>/<digits> for a name of letters,
\* digits and underscores other than the path segment c.
AcceptedForm(s) ==
    /\ Len(s) > Len(LinkPrefix)
    /\ SubSeq(s, 1, Len(LinkPrefix)) = LinkPrefix
    /\ LET r == SubSeq(s, Len(LinkPrefix) + 1, Len(s)) IN
       \E k \in 2..Len(r) :
          /\ r[k] = "/"
          /\ IsDigits(SubSeq(r, k + 1, Len(r)))
          /\ LET chat == SubSeq(r, 1, k - 1) IN
             \/ /\ chat # <<"c">>
                /\ \A n \in 1..Len(chat) : chat[n] \in Letters \cup Digits \cup {"_"}
             \/ /\ Len(chat) > 2
                /\ SubSeq(chat, 1, 2) = <<"c", "/">>
                /\ IsDigits(SubSeq(chat, 3, Len(chat)))

\* C20: when the handler of an authorized session parses a text that is not
\* a link of one of the two accepted forms, it answers with the rejection
\* reply and does not submit fetch_message_and_download.
C20_MalformedRejected ==
    [][\A t \in Threads :
        (AuthResult(t) /\ IsAuth(future[t]) /\ ~AcceptedForm(Chars(txt[t]))) =>
            /\ replies'[t] = Append(replies[t], "error_bad_link")
            /\ ~SubmitsFetch(t)]_vars

\* The program as the dispatcher runs it: the handlers are registered without
\* run_async (bot.py:671-674), so one thread calls them, one update after the
\* other.
NextSerial == Arrive(Caller) \/ Progress(Caller)

SpecSerial == Init /\ [][NextSerial]_vars

\* The handler of t hands a coroutine to the loop.
Submits(t) == coro'[t] # coro[t] /\ coro'[t].pc = "ready"

\* The login step that takes the awaited input.
StepOf(awaiting) ==
    CASE awaiting = "phone" -> "send"
      [] awaiting = "code" -> "sign"
      [] awaiting = "password" -> "signpwd"

\* The thread t is in text_message_handler, for a text of the owner.
InTextHandler(t) == pc[t] \notin {"idle", "status_wait"}

\* C21: while STATE['awaiting'] is 'phone', 'code' or 'password' the handler
\* of a text submits nothing but the login step of that input, submits
\* nothing after it, and starts no authorization check, fetch, download or
\* upload.
C21_TextIsAuthInput ==
    [][\A t \in Threads :
        (State.awaiting \in {"phone", "code", "password"} /\ InTextHandler(t)) =>
            /\ Submits(t) => (coro'[t].op = StepOf(State.awaiting) /\ coro[t] = NoCoro)
            /\ pc'[t] \notin {"auth_wait", "fetch_wait", "upload", "uploading"}
            /\ coro'[t].pc # "download"]_vars

\* C21's case: a link arrived while a phone number was awaited and was sent
\* as the phone number.
C21_Witness ==
    \E t \in Threads :
        /\ State.awaiting = "phone"
        /\ pc[t] = "send_wait"
        /\ coro[t].op = "send"
        /\ loc[t].phone = TxtChannelLink

\* The snapshots, their writers and their readers, alone.
SpecSnapshot == SnapshotInit /\ [][NextSnapshot]_vars

\* C22: at most one transfer is in its download leg; the start_time a
\* transfer's progress_callback reads is the one that transfer set; no reader
\* of a snapshot fails.
C22_SingleWriterReadersSafe ==
    /\ \A tr, other \in Transfers :
          (calc.transfer[tr].leg = "download" /\ calc.transfer[other].leg = "download")
              => tr = other
    /\ \A tr \in Transfers :
          calc.transfer[tr].read_start # 0 - 1
              => calc.transfer[tr].read_start = calc.transfer[tr].started
    /\ calc.reader.outcome # "KeyError"

\* The legs of the transfer handled by t: _fetch is submitted and has not
\* returned; upload_to_telegram_bot is about to be called or is running.
DownloadLeg(t) == coro[t].op = "fetch" /\ coro[t].pc # "done"
UploadLeg(t) == pc[t] \in {"upload", "uploading"}

\* C23: a transfer is in its upload leg only after its own fetch returned ok
\* with media of a size within the ceiling, and then its download leg is
\* over; the upload leg is entered from the return of the fetch and from
\* nowhere else; a fetch that failed or found no media ends the handler.
C23_UploadAfterOwnFetch ==
    /\ [](\A t \in Threads : UploadLeg(t) =>
            /\ ~DownloadLeg(t)
            /\ coro[t].op = "fetch"
            /\ future[t].state = "result"
            /\ future[t].value.ok /\ future[t].value.has_media
            /\ future[t].value.file_size <= MAX_FILE_SIZE)
    /\ [][\A t \in Threads :
            /\ (~UploadLeg(t) /\ pc'[t] \in {"upload", "uploading"}) => FetchReturned(t)
            /\ (pc[t] = "fetch_wait" /\ pc'[t] # pc[t]
                  /\ (future[t].state = "exception" \/ ~future[t].value.ok
                        \/ ~future[t].value.has_media))
                 => pc'[t] = "idle"]_vars

\* C23's case: one transfer is being uploaded while the other transfer's
\* download is under way.
C23_Witness ==
    \E t, u \in Threads :
        /\ pc[t] = "uploading" /\ future[t].value.has_media
        /\ pc[u] = "fetch_wait" /\ coro[u].pc = "download"

\* C24: a coroutine that got the client from _init_client got it after
\* connect() completed successfully on it.
C24_ClientConnected ==
    \A t \in Threads : coro[t].client # 0 => connection = "connected"

\* C25: upload_to_telegram_bot returns to the handler whatever fails in it:
\* the handler that called it ends with the reply that states the upload's
\* result and with the staged file removed.
C25_UploadAlwaysReturns ==
    [][\A t \in Threads :
        (UploadLeg(t) /\ pc'[t] = "idle") =>
            /\ \E result \in {"upload_complete", "error_upload"} :
                  replies'[t] = Append(replies[t], result)
            /\ ~file'[t].exists]_vars

====
